---- MODULE Spec2Model ----
(***************************************************************************)
(* Wallet / commission ledger of the car-wash backend.                     *)
(*                                                                         *)
(* State: the Booking collection, the Wallet collection (one document per  *)
(* user that was ever referenced as an attendant), the SystemWallet        *)
(* singleton and the calendar day.  One action per HTTP handler of         *)
(* bookingController / walletController, each run to completion, and one   *)
(* action per document method for the method-level specification.          *)
(*                                                                         *)
(* Money: the code computes amount * 0.4 and amount * 0.6 in IEEE doubles. *)
(* Every amount of the model is a multiple of 5, for which both products   *)
(* are exact integers, so the arithmetic is modelled in Int.               *)
(***************************************************************************)
EXTENDS Integers, Sequences, FiniteSets, TLC

\* ------------------------------------------------------------------ bounds
MaxBookings == 2     \* booking documents alive at once
MaxDay      == 1     \* calendar days 0..MaxDay
MaxSteps    == 3     \* requests per behaviour
MaxBatch    == 2     \* ids in one settleAttendantBalances request
MaxCalls    == 3     \* method calls per behaviour of the method-level spec

\* ------------------------------------------------------------------ users
Attendants  == {"a1", "a2"}          \* users with role attendant
Admins      == {"adm"}               \* users with another role
Users       == Attendants \cup Admins
UnknownId   == "ghost"               \* well-formed id of no user
MalformedId == "bad"                 \* fails /^[0-9a-fA-F]{24}$/

Role(u) == IF u \in Attendants THEN "attendant" ELSE "admin"

WellFormed(id) == id \in Users \cup {UnknownId}

\* ------------------------------------------------------------------ enums
PaymentTypes     == {"attendant_cash", "admin_cash", "admin_till"}
SchemaStatuses   == {"in progress", "completed"}
RequestStatuses  == {"pending", "in progress", "completed", "cancelled"}
AdjustmentTypes  == {"tip", "deduction"}

\* ------------------------------------------------------------------ inputs
Amounts          == {250, 500}
AmountInputs     == Amounts \cup {0, -5}
PaymentInputs    == PaymentTypes \cup {"bogus"}
AttendantInputs  == Users \cup {UnknownId, MalformedId}
TipAmounts       == {50}
TipAmountInputs  == TipAmounts \cup {0}
TipTypeInputs    == AdjustmentTypes \cup {"bogus"}
BookingIds       == 1..MaxBookings

\* an optional request field: given = FALSE is JavaScript's undefined
Opt(S, none) == {[given |-> FALSE, v |-> none]} \cup {[given |-> TRUE, v |-> x] : x \in S}
Some(x)      == [given |-> TRUE, v |-> x]
NoStr        == [given |-> FALSE, v |-> ""]
NoNum        == [given |-> FALSE, v |-> 0]
TruthyStr(o) == o.given /\ o.v # ""
TruthyNum(o) == o.given /\ o.v # 0

\* ------------------------------------------------------------------ documents
NoBooking ==
  [exists |-> FALSE, attendant |-> "", amount |-> 0, paymentType |-> "",
   status |-> "", attendantPaid |-> FALSE, createdDay |-> 0]

NoWallet ==
  [exists |-> FALSE, balance |-> 0, totalEarnings |-> 0, totalCommission |-> 0,
   totalCompanyShare |-> 0, companyDebt |-> 0, isPaid |-> FALSE,
   adjustments |-> << >>]

NoSystemWallet ==
  [exists |-> FALSE, totalRevenue |-> 0, totalCompanyShare |-> 0,
   totalAttendantPayments |-> 0, totalAdminCollections |-> 0,
   totalAttendantCollections |-> 0, currentBalance |-> 0]

VARIABLES
  bookings,       \* the Booking collection, by id
  wallets,        \* the Wallet collection, by attendant
  systemWallet,   \* the SystemWallet singleton
  today,          \* the calendar day
  steps,          \* requests (or method calls) made so far
  last,           \* the observed request: what it was and did
  trail,          \* method-level specification: the last two method calls
  procs,          \* interleaving specification: the request each slot is serving
  hist            \* interleaving specification: what has been started and applied

vars == <<bookings, wallets, systemWallet, today, steps, last, trail, procs, hist>>

\* ------------------------------------------------------------------ commission policy
Commission(amount)   == (amount * 4) \div 10
CompanyShare(amount) == (amount * 6) \div 10

Max0(x) == IF x > 0 THEN x ELSE 0

\* ------------------------------------------------------------------ wallet document
Validates(w) ==
  /\ w.totalEarnings >= 0
  /\ w.totalCommission >= 0
  /\ w.totalCompanyShare >= 0
  /\ w.companyDebt >= 0

\* a hook that marks every saved wallet paid
PreSaveMarkingPaid(w) == [w EXCEPT !.isPaid = TRUE]

PreSave(w) == IF w.balance # 0 THEN [w EXCEPT !.isPaid = FALSE] ELSE w

\* save(): the stored document becomes the edited one, unless validation throws
Save(stored, edited) == IF Validates(edited) THEN PreSave(edited) ELSE stored

FreshWallet ==
  [exists |-> TRUE, balance |-> 0, totalEarnings |-> 0, totalCommission |-> 0,
   totalCompanyShare |-> 0, companyDebt |-> 0, isPaid |-> TRUE,
   adjustments |-> << >>]

\* a getOrCreateWallet whose new wallet already carries earnings and a balance
getOrCreateWithEarnings(ws, a) ==
  IF ws[a].exists THEN ws[a]
  ELSE [FreshWallet EXCEPT !.balance = 100, !.totalEarnings = 250]

getOrCreateWallet(ws, a) == IF ws[a].exists THEN ws[a] ELSE FreshWallet

\* an apply that credits the commission whoever collected the cash
addIgnoringPaymentType(w, amount, paymentType) ==
  LET t == [w EXCEPT !.totalEarnings     = @ + amount,
                     !.totalCommission   = @ + Commission(amount),
                     !.totalCompanyShare = @ + CompanyShare(amount),
                     !.balance           = @ + Commission(amount)]
      p == IF t.balance # 0 THEN [t EXCEPT !.isPaid = FALSE] ELSE t
  IN  Save(w, p)

addCompletedBooking(w, amount, paymentType) ==
  LET commission   == Commission(amount)
      companyShare == CompanyShare(amount)
      t == [w EXCEPT !.totalEarnings     = @ + amount,
                     !.totalCommission   = @ + commission,
                     !.totalCompanyShare = @ + companyShare]
      b == IF paymentType = "attendant_cash"
           THEN [t EXCEPT !.balance = @ - companyShare,
                          !.companyDebt = @ + companyShare]
           ELSE [t EXCEPT !.balance = @ + commission]
      p == IF b.balance # 0 THEN [b EXCEPT !.isPaid = FALSE] ELSE b
  IN  Save(w, p)

\* a reversal that treats every booking as admin-collected
removeIgnoringPaymentType(w, amount, paymentType) ==
  LET commission   == Commission(amount)
      companyShare == CompanyShare(amount)
      t == [w EXCEPT !.totalEarnings     = Max0(@ - amount),
                     !.totalCommission   = Max0(@ - commission),
                     !.totalCompanyShare = Max0(@ - companyShare),
                     !.balance           = @ - commission]
      p == IF t.balance # 0 THEN [t EXCEPT !.isPaid = FALSE] ELSE t
  IN  Save(w, p)

\* a reversal that takes the earnings and the company share back and leaves
\* the commission total as it was
removeKeepingCommission(w, amount, paymentType) ==
  LET companyShare == CompanyShare(amount)
      t == [w EXCEPT !.totalEarnings     = Max0(@ - amount),
                     !.totalCompanyShare = Max0(@ - companyShare)]
      b == IF paymentType = "attendant_cash"
           THEN [t EXCEPT !.balance = @ + companyShare,
                          !.companyDebt = Max0(@ - companyShare)]
           ELSE [t EXCEPT !.balance = @ - Commission(amount)]
      p == IF b.balance # 0 THEN [b EXCEPT !.isPaid = FALSE] ELSE b
  IN  Save(w, p)

removeCompletedBooking(w, amount, paymentType) ==
  LET commission   == Commission(amount)
      companyShare == CompanyShare(amount)
      t == [w EXCEPT !.totalEarnings     = Max0(@ - amount),
                     !.totalCommission   = Max0(@ - commission),
                     !.totalCompanyShare = Max0(@ - companyShare)]
      b == IF paymentType = "attendant_cash"
           THEN [t EXCEPT !.balance = @ + companyShare,
                          !.companyDebt = Max0(@ - companyShare)]
           ELSE [t EXCEPT !.balance = @ - commission]
      p == IF b.balance # 0 THEN [b EXCEPT !.isPaid = FALSE] ELSE b
  IN  Save(w, p)

\* a reset that clears the balance and keeps the totals and the debt
resetBalanceOnly(w) ==
  Save(w, [w EXCEPT !.balance = 0, !.adjustments = << >>, !.isPaid = TRUE])

resetWallet(w) ==
  Save(w, [w EXCEPT !.balance = 0, !.totalEarnings = 0, !.totalCommission = 0,
                    !.totalCompanyShare = 0, !.companyDebt = 0,
                    !.adjustments = << >>, !.isPaid = TRUE])

\* Booking.find({attendant, status: 'completed', attendantPaid: false})
UnpaidCompleted(bs, a) ==
  {i \in BookingIds : /\ bs[i].exists
                      /\ bs[i].attendant = a
                      /\ bs[i].status = "completed"
                      /\ ~bs[i].attendantPaid}

\* sum of f[i] over the ids (the forEach accumulation of the code)
RECURSIVE SumOver(_, _)
SumOver(f, ids) ==
  IF ids = {} THEN 0
  ELSE LET i == CHOOSE j \in ids : TRUE
       IN  f[i] + SumOver(f, ids \ {i})

\* a total that adds every adjustment, deductions too
RECURSIVE AdjustmentsAllAdded(_)
AdjustmentsAllAdded(adjs) ==
  IF adjs = << >> THEN 0
  ELSE Head(adjs).amount + AdjustmentsAllAdded(Tail(adjs))

RECURSIVE AdjustmentsTotal(_)
AdjustmentsTotal(adjs) ==
  IF adjs = << >> THEN 0
  ELSE LET h == Head(adjs)
       IN  (IF h.type = "tip" THEN h.amount
            ELSE IF h.type = "deduction" THEN 0 - h.amount
            ELSE 0) + AdjustmentsTotal(Tail(adjs))

\* a rebuild that adds the replayed balance onto the stored one
rebuildOntoBalance(w, a, bs) ==
  LET ids == UnpaidCompleted(bs, a)
      Earn == [i \in BookingIds |-> bs[i].amount]
      Bal  == [i \in BookingIds |->
                 IF bs[i].paymentType = "attendant_cash"
                 THEN 0 - CompanyShare(bs[i].amount)
                 ELSE Commission(bs[i].amount)]
      Debt == [i \in BookingIds |->
                 IF bs[i].paymentType = "attendant_cash"
                 THEN CompanyShare(bs[i].amount) ELSE 0]
      balance == w.balance + SumOver(Bal, ids) + AdjustmentsTotal(w.adjustments)
      r == [w EXCEPT !.balance = balance,
                     !.totalEarnings = SumOver(Earn, ids),
                     !.totalCommission = Commission(SumOver(Earn, ids)),
                     !.totalCompanyShare = CompanyShare(SumOver(Earn, ids)),
                     !.companyDebt = SumOver(Debt, ids)]
      p == IF balance # 0 THEN [r EXCEPT !.isPaid = FALSE] ELSE r
  IN  Save(w, p)

rebuildWalletBalance(w, a, bs) ==
  LET ids   == UnpaidCompleted(bs, a)
      Earn  == [i \in BookingIds |-> bs[i].amount]
      Comm  == [i \in BookingIds |-> Commission(bs[i].amount)]
      Share == [i \in BookingIds |-> CompanyShare(bs[i].amount)]
      Bal   == [i \in BookingIds |->
                  IF bs[i].paymentType = "attendant_cash"
                  THEN 0 - CompanyShare(bs[i].amount)
                  ELSE Commission(bs[i].amount)]
      Debt  == [i \in BookingIds |->
                  IF bs[i].paymentType = "attendant_cash"
                  THEN CompanyShare(bs[i].amount) ELSE 0]
      balance == SumOver(Bal, ids) + AdjustmentsTotal(w.adjustments)
      r == [w EXCEPT !.balance = balance,
                     !.totalEarnings = SumOver(Earn, ids),
                     !.totalCommission = SumOver(Comm, ids),
                     !.totalCompanyShare = SumOver(Share, ids),
                     !.companyDebt = SumOver(Debt, ids)]
      p == IF balance # 0 THEN [r EXCEPT !.isPaid = FALSE] ELSE r
  IN  Save(w, p)

\* ------------------------------------------------------------------ system wallet document
SystemWalletSources == {"admin_collection", "attendant_submission", "attendant_collection"}

FreshSystemWallet == [NoSystemWallet EXCEPT !.exists = TRUE]

getOrCreateSystemWallet(sw) == IF sw.exists THEN sw ELSE FreshSystemWallet

\* a credit that books every source as an admin collection
creditAlwaysAdmin(sw, amount, source) ==
  [sw EXCEPT !.totalRevenue = @ + amount, !.currentBalance = @ + amount,
             !.totalAdminCollections = @ + amount]

creditSystemWallet(sw, amount, source) ==
  LET c == [sw EXCEPT !.totalRevenue = @ + amount, !.currentBalance = @ + amount]
  IN  IF source = "admin_collection"
      THEN [c EXCEPT !.totalAdminCollections = @ + amount]
      ELSE IF source = "attendant_submission"
      THEN [c EXCEPT !.totalAttendantPayments = @ + amount]
      ELSE c

trackCompanyShare(sw, amount) == [sw EXCEPT !.totalCompanyShare = @ + amount]

\* a reversal that forgets the per-source counters
reverseTotalsOnly(sw, amount, source) ==
  [sw EXCEPT !.totalRevenue = Max0(@ - amount), !.currentBalance = Max0(@ - amount)]

\* a reversal that subtracts and never floors at zero
reverseWithoutFloor(sw, amount, source) ==
  LET c == [sw EXCEPT !.totalRevenue = @ - amount, !.currentBalance = @ - amount]
  IN  IF source = "admin_collection"
      THEN [c EXCEPT !.totalAdminCollections = @ - amount]
      ELSE IF source = "attendant_submission"
      THEN [c EXCEPT !.totalAttendantPayments = @ - amount]
      ELSE IF source = "attendant_collection"
      THEN [c EXCEPT !.totalAttendantCollections = @ - amount]
      ELSE c

reverseSystemWalletTransaction(sw, amount, source) ==
  LET c == [sw EXCEPT !.totalRevenue = @ - amount, !.currentBalance = @ - amount]
      d == IF source = "admin_collection"
           THEN [c EXCEPT !.totalAdminCollections = @ - amount]
           ELSE IF source = "attendant_submission"
           THEN [c EXCEPT !.totalAttendantPayments = @ - amount]
           ELSE IF source = "attendant_collection"
           THEN [c EXCEPT !.totalAttendantCollections = @ - amount]
           ELSE c
  IN  [d EXCEPT !.totalRevenue = Max0(@),
                !.currentBalance = Max0(@),
                !.totalAdminCollections = Max0(@),
                !.totalAttendantPayments = Max0(@),
                !.totalAttendantCollections = Max0(@)]

\* ------------------------------------------------------------------ requests
\* the wallet method calls a handler makes, in order
Call(method, att, amount, paymentType) ==
  [method |-> method, att |-> att, amount |-> amount, paymentType |-> paymentType]

ApplyCall(ws, c) ==
  LET w == getOrCreateWallet(ws, c.att)
  IN  [ws EXCEPT ![c.att] =
         IF c.method = "add" THEN addCompletedBooking(w, c.amount, c.paymentType)
         ELSE removeCompletedBooking(w, c.amount, c.paymentType)]

ApplyCalls(ws, calls) ==
  LET after[k \in 0..Len(calls)] ==
        IF k = 0 THEN ws ELSE ApplyCall(after[k - 1], calls[k])
  IN  after[Len(calls)]

NoReq == [attendant |-> NoStr, amount |-> NoNum, paymentType |-> NoStr,
          status |-> NoStr, type |-> NoStr]

\* what the last request was and did; pre is the Wallet collection before it
NoLast ==
  [op |-> "none", result |-> "none", att |-> "", bid |-> 0, req |-> NoReq,
   orig |-> NoBooking, calls |-> << >>, batch |-> << >>, settled |-> << >>,
   errors |-> << >>, pre |-> [u \in Users |-> NoWallet]]

\* the two requests the server may be serving at the same moment
Slots == {"p", "q"}

\* a request being served: where it stands, the wallet document it loaded
\* (loaded), the booking it found (orig), the bookings its rebuild found
\* (found) and the wallet calls it still has to make; no numbers the requests
\* in the order they started, met holds the requests served at the same time
NoRequest ==
  [op |-> "none", pc |-> "idle", result |-> "none", att |-> "", bid |-> 0,
   status |-> "", dayOnly |-> FALSE, calls |-> << >>, loaded |-> NoWallet,
   orig |-> NoBooking, found |-> << >>, stale |-> FALSE, no |-> 0, met |-> {}]

NoHistory ==
  [started |-> 0, created |-> 0, applies |-> [i \in BookingIds |-> 0],
   reversals |-> [i \in BookingIds |-> 0]]

Init ==
  /\ bookings = [i \in BookingIds |-> NoBooking]
  /\ wallets  = [u \in Users |-> NoWallet]
  /\ systemWallet = NoSystemWallet
  /\ today    = 0
  /\ steps    = 0
  /\ last     = NoLast
  /\ trail    = << >>
  /\ procs    = [s \in Slots |-> NoRequest]
  /\ hist     = NoHistory

\* The request is answered.  rec says what it was and did.  One request of a
\* behaviour is observed, its last: the requests before it run unobserved
\* (last stays NoLast), so that states which differ only in what was observed
\* are never explored twice, while every request from every reachable state
\* of the collections is still observed.
Respond(rec) ==
  /\ steps' = steps + 1
  /\ \/ last' = [rec EXCEPT !.pre = wallets]
     \/ steps + 1 < MaxSteps /\ last' = NoLast
  /\ UNCHANGED <<systemWallet, today, trail, procs, hist>>

\* the request is refused before it changes anything (AppError via next())
Reject(op, result) ==
  /\ Respond([NoLast EXCEPT !.op = op, !.result = result])
  /\ UNCHANGED <<bookings, wallets>>

FreeIds == {i \in BookingIds : ~bookings[i].exists}

createBooking(attendant, amount, paymentType) ==
  LET rec == [NoLast EXCEPT !.op = "createBooking", !.att = attendant,
                            !.req = [NoReq EXCEPT !.attendant = Some(attendant),
                                                  !.amount = Some(amount),
                                                  !.paymentType = Some(paymentType)]]
  IN
  IF \/ amount = 0                              \* !amount: required field
     \/ paymentType \notin PaymentTypes
     \/ amount <= 0
     \/ ~WellFormed(attendant)
  THEN Reject(rec.op, "invalid")
  ELSE IF attendant \notin Users
  THEN Reject(rec.op, "notFound")
  ELSE /\ FreeIds # {}
       /\ LET id == CHOOSE i \in FreeIds : \A j \in FreeIds : i <= j
              newBooking == [exists |-> TRUE, attendant |-> attendant,
                             amount |-> amount, paymentType |-> paymentType,
                             status |-> "completed", attendantPaid |-> FALSE,
                             createdDay |-> today]
              calls == IF newBooking.status = "completed"
                       THEN << Call("add", attendant, newBooking.amount,
                                    newBooking.paymentType) >>
                       ELSE << >>
              \* wallet.isPaid = false before addCompletedBooking
              ws0 == IF calls = << >> THEN wallets
                     ELSE [wallets EXCEPT ![attendant] =
                             [getOrCreateWallet(wallets, attendant)
                                EXCEPT !.isPaid = FALSE]]
          IN  /\ bookings' = [bookings EXCEPT ![id] = newBooking]
              /\ wallets'  = ApplyCalls(ws0, calls)
              /\ Respond([rec EXCEPT !.result = "success", !.bid = id,
                                     !.calls = calls])

deleteBooking(id) ==
  LET booking == bookings[id]
      rec == [NoLast EXCEPT !.op = "deleteBooking", !.bid = id, !.orig = booking,
                            !.att = booking.attendant]
  IN
  IF ~booking.exists
  THEN Reject(rec.op, "notFound")
  ELSE LET calls == IF booking.status = "completed"
                    THEN << Call("remove", booking.attendant, booking.amount,
                                 booking.paymentType) >>
                    ELSE << >>
       IN  /\ wallets'  = ApplyCalls(wallets, calls)
           /\ bookings' = [bookings EXCEPT ![id] = NoBooking]
           /\ Respond([rec EXCEPT !.result = "success", !.calls = calls])

\* an updateMany whose filter leaves the attendant out
MarkPaidEveryone(bs, a, dayOnly, day) ==
  [i \in BookingIds |->
     IF /\ bs[i].exists
        /\ ~bs[i].attendantPaid
        /\ bs[i].status = "completed"
        /\ (dayOnly => bs[i].createdDay = day)
     THEN [bs[i] EXCEPT !.attendantPaid = TRUE]
     ELSE bs[i]]

\* Booking.updateMany({attendant, attendantPaid: false, status: 'completed'
\*                     [, createdAt within day]}, {attendantPaid: true})
MarkPaid(bs, a, dayOnly, day) ==
  [i \in BookingIds |->
     IF /\ bs[i].exists
        /\ bs[i].attendant = a
        /\ ~bs[i].attendantPaid
        /\ bs[i].status = "completed"
        /\ (dayOnly => bs[i].createdDay = day)
     THEN [bs[i] EXCEPT !.attendantPaid = TRUE]
     ELSE bs[i]]

markAttendantPaid(attendantId) ==
  LET rec == [NoLast EXCEPT !.op = "markAttendantPaid", !.att = attendantId]
  IN
  IF ~WellFormed(attendantId)
  THEN Reject(rec.op, "invalid")
  ELSE IF attendantId \notin Users
  THEN Reject(rec.op, "notFound")
  ELSE IF Role(attendantId) # "attendant"
  THEN Reject(rec.op, "invalid")
  ELSE LET wallet == getOrCreateWallet(wallets, attendantId)
       IN  IF wallet.isPaid
           THEN /\ wallets' = [wallets EXCEPT ![attendantId] = wallet]
                /\ Respond([rec EXCEPT !.result = "alreadyPaid"])
                /\ UNCHANGED bookings
           ELSE /\ bookings' = MarkPaid(bookings, attendantId, FALSE, today)
                /\ wallets'  = [wallets EXCEPT ![attendantId] = resetWallet(wallet)]
                /\ Respond([rec EXCEPT !.result = "success"])

\* a test that takes every booking for a completed one
wasCompletedAlways(originalBooking) == TRUE

\* const wasCompleted = originalBooking.status === 'completed'
wasCompleted(originalBooking) == originalBooking.status = "completed"

\* the wallet calls of updateBooking, Cases 1 to 5 in their order
updateCalls(originalBooking, req) ==
  LET attendant   == req.attendant
      amount      == req.amount
      paymentType == req.paymentType
      status      == req.status
      originalAttendant == originalBooking.attendant
      finalAttendant    == IF TruthyStr(attendant) THEN attendant.v
                           ELSE originalAttendant
      amountChanged      == amount.given /\ amount.v # originalBooking.amount
      attendantChanged   == attendant.given /\ attendant.v # originalAttendant
      paymentTypeChanged == paymentType.given
                            /\ paymentType.v # originalBooking.paymentType
      statusChanged      == status.given /\ status.v # originalBooking.status
      statusChangedToCompleted   == statusChanged /\ status.v = "completed"
      statusChangedFromCompleted == /\ statusChanged
                                    /\ originalBooking.status = "completed"
                                    /\ status.v # "completed"
      finalAmount      == IF amount.given THEN amount.v ELSE originalBooking.amount
      finalPaymentType == IF paymentType.given THEN paymentType.v
                          ELSE originalBooking.paymentType
      case1 == IF statusChangedFromCompleted
               THEN << Call("remove", originalAttendant, originalBooking.amount,
                            originalBooking.paymentType) >>
               ELSE << >>
      case2 == IF statusChangedToCompleted
               THEN << Call("add", finalAttendant, finalAmount, finalPaymentType) >>
               ELSE << >>
      case3 == IF wasCompleted(originalBooking) /\ ~statusChanged
                  /\ (amountChanged \/ paymentTypeChanged)
               THEN << Call("remove", originalAttendant, originalBooking.amount,
                            originalBooking.paymentType),
                       Call("add", originalAttendant, finalAmount, finalPaymentType) >>
               ELSE << >>
      case4 == IF wasCompleted(originalBooking) /\ attendantChanged
               THEN << Call("remove", originalAttendant, finalAmount, finalPaymentType),
                       Call("add", finalAttendant, finalAmount, finalPaymentType) >>
               ELSE << >>
      case5 == IF wasCompleted(originalBooking) /\ attendantChanged
                  /\ (amountChanged \/ paymentTypeChanged)
               THEN << Call("remove", originalAttendant, originalBooking.amount,
                            originalBooking.paymentType),
                       Call("add", finalAttendant, finalAmount, finalPaymentType) >>
               ELSE << >>
  IN  case1 \o case2 \o case3 \o case4 \o case5

\* updateBooking: req is the request body, each field optional
updateBooking(id, req) ==
  LET attendant   == req.attendant
      amount      == req.amount
      paymentType == req.paymentType
      status      == req.status
  IN
  IF \/ (TruthyStr(paymentType) /\ paymentType.v \notin PaymentTypes)
     \/ (TruthyStr(status) /\ status.v \notin RequestStatuses)
     \/ (TruthyNum(amount) /\ amount.v <= 0)
  THEN Reject("updateBooking", "invalid")
  ELSE IF TruthyStr(attendant) /\ ~WellFormed(attendant.v)
  THEN Reject("updateBooking", "threw")          \* CastError from User.findById
  ELSE IF TruthyStr(attendant) /\ attendant.v \notin Users
  THEN Reject("updateBooking", "notFound")
  ELSE IF ~bookings[id].exists
  THEN Reject("updateBooking", "notFound")
  ELSE
  LET originalBooking   == bookings[id]
      originalAttendant == originalBooking.attendant
      calls == updateCalls(originalBooking, req)
      \* findByIdAndUpdate sets the truthy fields; runValidators checks them
      schemaOk == TruthyStr(status) => status.v \in SchemaStatuses
      updated  == [originalBooking EXCEPT
                     !.attendant   = IF TruthyStr(attendant) THEN attendant.v ELSE @,
                     !.amount      = IF TruthyNum(amount) THEN amount.v ELSE @,
                     !.paymentType = IF TruthyStr(paymentType) THEN paymentType.v ELSE @,
                     !.status      = IF TruthyStr(status) THEN status.v ELSE @]
      rec == [NoLast EXCEPT !.op = "updateBooking", !.bid = id,
                            !.att = originalAttendant, !.orig = originalBooking,
                            !.req = req, !.calls = calls]
  IN  /\ wallets'  = ApplyCalls(wallets, calls)
      /\ bookings' = IF schemaOk THEN [bookings EXCEPT ![id] = updated] ELSE bookings
      /\ Respond([rec EXCEPT !.result = IF schemaOk THEN "success" ELSE "threw"])

\* an adjustment that overwrites the list with the new record
adjustReplacingList(attendantId, amount, type) ==
  IF \/ ~WellFormed(attendantId)
     \/ amount <= 0
     \/ type \notin AdjustmentTypes
  THEN Reject("adjustAttendantWallet", "invalid")
  ELSE IF attendantId \notin Users
  THEN Reject("adjustAttendantWallet", "notFound")
  ELSE IF Role(attendantId) # "attendant"
  THEN Reject("adjustAttendantWallet", "invalid")
  ELSE
  LET wallet == getOrCreateWallet(wallets, attendantId)
      adjustment == [type |-> type, amount |-> amount]
      w1 == Save(wallet, [wallet EXCEPT !.adjustments = << adjustment >>])
      b  == IF type = "tip" THEN [w1 EXCEPT !.balance = @ + amount]
            ELSE [w1 EXCEPT !.balance = @ - amount]
      w2 == Save(w1, b)
      rec == [NoLast EXCEPT !.op = "adjustAttendantWallet", !.att = attendantId,
                            !.req = [NoReq EXCEPT !.amount = Some(amount),
                                                  !.type = Some(type)]]
  IN  /\ wallets' = [wallets EXCEPT ![attendantId] = w2]
      /\ UNCHANGED bookings
      /\ Respond([rec EXCEPT !.result = "success"])

adjustAttendantWallet(attendantId, amount, type) ==
  IF \/ ~WellFormed(attendantId)
     \/ amount <= 0
     \/ type \notin AdjustmentTypes
  THEN Reject("adjustAttendantWallet", "invalid")
  ELSE IF attendantId \notin Users
  THEN Reject("adjustAttendantWallet", "notFound")
  ELSE IF Role(attendantId) # "attendant"
  THEN Reject("adjustAttendantWallet", "invalid")
  ELSE
  LET wallet == getOrCreateWallet(wallets, attendantId)
      adjustment == [type |-> type, amount |-> amount]
      w1 == Save(wallet, [wallet EXCEPT !.adjustments = Append(@, adjustment)])
      b  == IF type = "tip" THEN [w1 EXCEPT !.balance = @ + amount]
            ELSE [w1 EXCEPT !.balance = @ - amount]
      p  == IF b.balance # 0 THEN [b EXCEPT !.isPaid = FALSE] ELSE b
      w2 == Save(w1, p)
      rec == [NoLast EXCEPT !.op = "adjustAttendantWallet", !.att = attendantId,
                            !.req = [NoReq EXCEPT !.amount = Some(amount),
                                                  !.type = Some(type)]]
  IN  /\ wallets' = [wallets EXCEPT ![attendantId] = w2]
      /\ UNCHANGED bookings
      /\ Respond([rec EXCEPT !.result = "success"])

\* walletController.rebuildWalletBalance
rebuildRequest(attendantId) ==
  IF ~WellFormed(attendantId)
  THEN Reject("rebuildWalletBalance", "invalid")
  ELSE IF attendantId \notin Users
  THEN Reject("rebuildWalletBalance", "notFound")
  ELSE IF Role(attendantId) # "attendant"
  THEN Reject("rebuildWalletBalance", "invalid")
  ELSE
  LET wallet == getOrCreateWallet(wallets, attendantId)
      rec == [NoLast EXCEPT !.op = "rebuildWalletBalance", !.att = attendantId]
  IN  /\ wallets' = [wallets EXCEPT ![attendantId] =
                       rebuildWalletBalance(wallet, attendantId, bookings)]
      /\ UNCHANGED bookings
      /\ Respond([rec EXCEPT !.result = "success"])

\* a loop that gives up at the first attendant it cannot settle
RECURSIVE SettleLoopAborting(_, _, _, _, _, _)
SettleLoopAborting(ids, bs, ws, settled, errors, day) ==
  IF ids = << >>
  THEN [bookings |-> bs, wallets |-> ws, settled |-> settled, errors |-> errors]
  ELSE
  LET attendantId == Head(ids)
      stop == [bookings |-> bs, wallets |-> ws, settled |-> settled,
               errors |-> errors \o ids]
  IN  IF attendantId \notin Users \/ Role(attendantId) # "attendant"
      THEN stop
      ELSE LET wallet == getOrCreateWallet(ws, attendantId)
           IN  IF wallet.isPaid
               THEN stop
               ELSE SettleLoopAborting(Tail(ids),
                                       MarkPaid(bs, attendantId, TRUE, day),
                                       [ws EXCEPT ![attendantId] = resetWallet(wallet)],
                                       Append(settled, attendantId), errors, day)

\* a loop that settles an attendant whose wallet is already paid once more
RECURSIVE SettleLoopIgnoringPaid(_, _, _, _, _, _)
SettleLoopIgnoringPaid(ids, bs, ws, settled, errors, day) ==
  IF ids = << >>
  THEN [bookings |-> bs, wallets |-> ws, settled |-> settled, errors |-> errors]
  ELSE
  LET attendantId == Head(ids)
      rest == Tail(ids)
  IN  IF attendantId \notin Users \/ Role(attendantId) # "attendant"
      THEN SettleLoopIgnoringPaid(rest, bs, ws, settled,
                                  Append(errors, attendantId), day)
      ELSE LET wallet == getOrCreateWallet(ws, attendantId)
           IN  SettleLoopIgnoringPaid(rest,
                                      MarkPaid(bs, attendantId, TRUE, day),
                                      [ws EXCEPT ![attendantId] = resetWallet(wallet)],
                                      Append(settled, attendantId), errors, day)

\* the for-loop of settleAttendantBalances over the ids still to process
RECURSIVE SettleLoop(_, _, _, _, _, _)
SettleLoop(ids, bs, ws, settled, errors, day) ==
  IF ids = << >>
  THEN [bookings |-> bs, wallets |-> ws, settled |-> settled, errors |-> errors]
  ELSE
  LET attendantId == Head(ids)
      rest == Tail(ids)
  IN  IF attendantId \notin Users
      THEN SettleLoop(rest, bs, ws, settled, Append(errors, attendantId), day)
      ELSE IF Role(attendantId) # "attendant"
      THEN SettleLoop(rest, bs, ws, settled, Append(errors, attendantId), day)
      ELSE
      LET wallet == getOrCreateWallet(ws, attendantId)
          ws1 == [ws EXCEPT ![attendantId] = wallet]
      IN  IF wallet.isPaid
          THEN SettleLoop(rest, bs, ws1, settled, Append(errors, attendantId), day)
          ELSE SettleLoop(rest,
                          MarkPaid(bs, attendantId, TRUE, day),
                          [ws1 EXCEPT ![attendantId] = resetWallet(wallet)],
                          Append(settled, attendantId), errors, day)

settleAttendantBalances(attendantIds) ==
  IF \/ Len(attendantIds) = 0
     \/ \E k \in 1..Len(attendantIds) : ~WellFormed(attendantIds[k])
  THEN Reject("settleAttendantBalances", "invalid")
  ELSE
  LET out == SettleLoop(attendantIds, bookings, wallets, << >>, << >>, today)
      rec == [NoLast EXCEPT !.op = "settleAttendantBalances",
                            !.batch = attendantIds,
                            !.settled = out.settled, !.errors = out.errors]
  IN  /\ bookings' = out.bookings
      /\ wallets'  = out.wallets
      /\ Respond([rec EXCEPT !.result = "success"])

\* a request can be served: the budget is not spent and none was observed yet
Ready == steps < MaxSteps /\ last = NoLast

\* midnight passes
AdvanceDay ==
  /\ Ready
  /\ today < MaxDay
  /\ today' = today + 1
  /\ UNCHANGED <<bookings, wallets, systemWallet, steps, last, trail, procs, hist>>

\* ------------------------------------------------------------------ request inputs
BookingAttendantInputs == Attendants \cup {UnknownId, MalformedId}

\* update bodies: every combination of acceptable values, and each unacceptable
\* value alone
UpdateRequests ==
  {[NoReq EXCEPT !.attendant = a, !.amount = x, !.paymentType = p, !.status = s] :
      a \in Opt(Attendants, ""), x \in Opt(Amounts \cup {0}, 0),
      p \in Opt({"attendant_cash", "admin_cash"}, ""), s \in Opt({"in progress", "completed", "pending"}, "")}
  \cup {[NoReq EXCEPT !.attendant = Some(a)] : a \in {UnknownId, MalformedId}}
  \cup {[NoReq EXCEPT !.amount = Some(-5)],
        [NoReq EXCEPT !.paymentType = Some("bogus")],
        [NoReq EXCEPT !.status = Some("bogus")]}

RECURSIVE SeqsUpTo(_, _)
SeqsUpTo(S, n) ==
  IF n = 0 THEN {<< >>}
  ELSE LET shorter == SeqsUpTo(S, n - 1)
       IN  shorter \cup {Append(q, x) : q \in shorter, x \in S}

Batches == SeqsUpTo(AttendantInputs, MaxBatch)

CreateBooking ==
  /\ Ready
  /\ \E a \in BookingAttendantInputs, x \in AmountInputs, p \in PaymentInputs :
        createBooking(a, x, p)

UpdateBooking ==
  /\ Ready
  /\ \E i \in BookingIds, r \in UpdateRequests : updateBooking(i, r)

DeleteBooking ==
  /\ Ready
  /\ \E i \in BookingIds : deleteBooking(i)

MarkAttendantPaid ==
  /\ Ready
  /\ \E a \in AttendantInputs : markAttendantPaid(a)

SettleAttendantBalances ==
  /\ Ready
  /\ \E ids \in Batches : settleAttendantBalances(ids)

RebuildWalletBalance ==
  /\ Ready
  /\ \E a \in AttendantInputs : rebuildRequest(a)

AdjustAttendantWallet ==
  /\ Ready
  /\ \E a \in AttendantInputs, x \in TipAmountInputs, t \in TipTypeInputs :
        adjustAttendantWallet(a, x, t)

Next ==
  \/ CreateBooking
  \/ UpdateBooking
  \/ DeleteBooking
  \/ MarkAttendantPaid
  \/ SettleAttendantBalances
  \/ RebuildWalletBalance
  \/ AdjustAttendantWallet
  \/ AdvanceDay

Spec == Init /\ [][Next]_vars

\* ------------------------------------------------------------------ method-level specification
\* The document methods called directly, in any order, on one wallet document
\* and on the system wallet: every sequence of applies and reversals, matched
\* or not.
LedgerAttendant == "a1"

SampleBooking(amount, paymentType) ==
  [exists |-> TRUE, attendant |-> LedgerAttendant, amount |-> amount,
   paymentType |-> paymentType, status |-> "completed",
   attendantPaid |-> FALSE, createdDay |-> 0]

\* the Booking collections rebuildWalletBalance is run against
LedgerBookings ==
  {[i \in BookingIds |-> NoBooking],
   [i \in BookingIds |-> IF i = 1 THEN SampleBooking(500, "attendant_cash")
                         ELSE NoBooking],
   [i \in BookingIds |-> IF i = 1 THEN SampleBooking(250, "admin_cash")
                         ELSE IF i = 2 THEN SampleBooking(250, "attendant_cash")
                         ELSE NoBooking]}

LedgerInit ==
  /\ bookings \in LedgerBookings
  /\ wallets  = [u \in Users |-> NoWallet]
  /\ systemWallet = NoSystemWallet
  /\ today    = 0
  /\ steps    = 0
  /\ last     = NoLast
  /\ trail    = << >>
  /\ procs    = [s \in Slots |-> NoRequest]
  /\ hist     = NoHistory

TheWallet == getOrCreateWallet(wallets, LedgerAttendant)

\* the call is made: it joins the trail with both documents as they were before
Called(method, amount, arg) ==
  LET rec == [method |-> method, amount |-> amount, arg |-> arg,
              before |-> TheWallet,
              systemBefore |-> getOrCreateSystemWallet(systemWallet)]
  IN  /\ steps < MaxCalls
      /\ steps' = steps + 1
      /\ trail' = IF Len(trail) < 2 THEN Append(trail, rec) ELSE << trail[2], rec >>
      /\ UNCHANGED <<bookings, today, last, procs, hist>>

CallAddCompletedBooking ==
  \E x \in Amounts, p \in PaymentTypes :
    /\ wallets' = [wallets EXCEPT ![LedgerAttendant] = addCompletedBooking(TheWallet, x, p)]
    /\ Called("addCompletedBooking", x, p)
    /\ UNCHANGED systemWallet

CallRemoveCompletedBooking ==
  \E x \in Amounts, p \in PaymentTypes :
    /\ wallets' = [wallets EXCEPT ![LedgerAttendant] = removeCompletedBooking(TheWallet, x, p)]
    /\ Called("removeCompletedBooking", x, p)
    /\ UNCHANGED systemWallet

CallResetWallet ==
  /\ wallets' = [wallets EXCEPT ![LedgerAttendant] = resetWallet(TheWallet)]
  /\ Called("resetWallet", 0, "")
  /\ UNCHANGED systemWallet

CallRebuildWalletBalance ==
  /\ wallets' = [wallets EXCEPT ![LedgerAttendant] =
                   rebuildWalletBalance(TheWallet, LedgerAttendant, bookings)]
  /\ Called("rebuildWalletBalance", 0, "")
  /\ UNCHANGED systemWallet

CallCreditSystemWallet ==
  \E x \in Amounts, src \in SystemWalletSources :
    /\ systemWallet' = creditSystemWallet(getOrCreateSystemWallet(systemWallet), x, src)
    /\ Called("creditSystemWallet", x, src)
    /\ UNCHANGED wallets

CallReverseSystemWalletTransaction ==
  \E x \in Amounts, src \in SystemWalletSources :
    /\ systemWallet' = reverseSystemWalletTransaction(
                          getOrCreateSystemWallet(systemWallet), x, src)
    /\ Called("reverseSystemWalletTransaction", x, src)
    /\ UNCHANGED wallets

CallTrackCompanyShare ==
  \E x \in Amounts :
    /\ systemWallet' = trackCompanyShare(getOrCreateSystemWallet(systemWallet), x)
    /\ Called("trackCompanyShare", x, "")
    /\ UNCHANGED wallets

LedgerNext ==
  \/ CallAddCompletedBooking
  \/ CallRemoveCompletedBooking
  \/ CallResetWallet
  \/ CallRebuildWalletBalance
  \/ CallCreditSystemWallet
  \/ CallReverseSystemWalletTransaction
  \/ CallTrackCompanyShare

LedgerSpec == LedgerInit /\ [][LedgerNext]_vars

\* ------------------------------------------------------------------ interleaving specification
\* Two requests served at once.  Every await of a handler that reaches a
\* collection is a step of its own, so the steps of the two requests
\* interleave; a request may also die between two steps (the process crashes).
\* Requests are for one attendant; updateBooking bodies carry a status only,
\* so each of their wallet calls has its own getOrCreateWallet.
MaxRequests == 3

RaceAttendant == "a1"
RacePaymentTypes == {"attendant_cash", "admin_cash"}
RaceStatuses == {"in progress", "completed", "pending"}

BookingHandlers    == {"createBooking", "updateBooking", "deleteBooking"}
SettlementHandlers == {"markAttendantPaid", "settleAttendantBalances"}

InFlight(r) == r.pc \notin {"idle", "done", "crashed"}

\* a save that adds what the document gained to what the collection holds
WriteBackAdding(stored, loaded, edited) ==
  [stored EXCEPT !.balance           = @ + (edited.balance - loaded.balance),
                 !.totalEarnings     = @ + (edited.totalEarnings - loaded.totalEarnings),
                 !.totalCommission   = @ + (edited.totalCommission - loaded.totalCommission),
                 !.totalCompanyShare = @ + (edited.totalCompanyShare - loaded.totalCompanyShare),
                 !.companyDebt       = @ + (edited.companyDebt - loaded.companyDebt),
                 !.isPaid            = edited.isPaid]

\* save() of a document loaded earlier: the paths whose value changed since it
\* was loaded are written, the others keep what the collection holds by now
WriteBack(stored, loaded, edited) ==
  [f \in DOMAIN stored |-> IF edited[f] # loaded[f] THEN edited[f] ELSE stored[f]]

\* slot s starts to serve request r
Begin(s, r) ==
  [t \in Slots |->
     IF t = s
     THEN [r EXCEPT !.no  = hist.started + 1,
                    !.met = {procs[o].no : o \in {u \in Slots \ {s} : InFlight(procs[u])}}]
     ELSE IF InFlight(procs[t])
     THEN [procs[t] EXCEPT !.met = @ \cup {hist.started + 1}]
     ELSE procs[t]]

CanStart(s) == ~InFlight(procs[s]) /\ hist.started < MaxRequests

Started == [hist EXCEPT !.started = @ + 1]

\* createBooking up to Booking.create
StartCreateBooking(s, amount, paymentType) ==
  /\ CanStart(s)
  /\ hist.created < MaxBookings
  /\ LET id == hist.created + 1
         newBooking == [exists |-> TRUE, attendant |-> RaceAttendant,
                        amount |-> amount, paymentType |-> paymentType,
                        status |-> "completed", attendantPaid |-> FALSE,
                        createdDay |-> today]
         calls == IF newBooking.status = "completed"
                  THEN << Call("add", RaceAttendant, newBooking.amount,
                               newBooking.paymentType) >>
                  ELSE << >>
     IN  /\ bookings' = [bookings EXCEPT ![id] = newBooking]
         /\ procs' = Begin(s, [NoRequest EXCEPT !.op = "createBooking",
                                                !.pc = "find", !.bid = id,
                                                !.att = RaceAttendant,
                                                !.calls = calls])
         /\ hist' = [Started EXCEPT !.created = @ + 1]
  /\ UNCHANGED <<wallets, systemWallet, today, steps, last, trail>>

\* deleteBooking and updateBooking up to Booking.findById
StartOnBooking(s, op, id, status) ==
  /\ CanStart(s)
  /\ LET booking == bookings[id]
         req   == [NoReq EXCEPT !.status = Some(status)]
         calls == IF op = "deleteBooking"
                  THEN IF booking.status = "completed"
                       THEN << Call("remove", booking.attendant, booking.amount,
                                    booking.paymentType) >>
                       ELSE << >>
                  ELSE updateCalls(booking, req)
         r == [NoRequest EXCEPT !.op = op, !.bid = id, !.orig = booking,
                                !.status = IF op = "updateBooking" THEN status ELSE ""]
     IN  procs' = Begin(s,
                    IF ~booking.exists
                    THEN [r EXCEPT !.pc = "done", !.result = "notFound"]
                    ELSE [r EXCEPT !.pc = IF calls = << >> THEN "write" ELSE "find",
                                   !.att = IF calls = << >> THEN booking.attendant
                                           ELSE calls[1].att,
                                   !.calls = calls])
  /\ hist' = Started
  /\ UNCHANGED <<bookings, wallets, systemWallet, today, steps, last, trail>>

\* markAttendantPaid, settleAttendantBalances of one id, and rebuildWalletBalance
\* up to the lookup of the user
StartOnWallet(s, op) ==
  /\ CanStart(s)
  /\ procs' = Begin(s, [NoRequest EXCEPT !.op = op, !.pc = "find",
                                         !.att = RaceAttendant,
                                         !.dayOnly = (op = "settleAttendantBalances")])
  /\ hist' = Started
  /\ UNCHANGED <<bookings, wallets, systemWallet, today, steps, last, trail>>

\* what follows getOrCreateWallet once it has returned wallet w
AfterWalletFound(r, w) ==
  IF r.op \in SettlementHandlers
  THEN IF w.isPaid THEN [r EXCEPT !.loaded = w, !.pc = "done", !.result = "alreadyPaid"]
       ELSE [r EXCEPT !.loaded = w, !.pc = "mark"]
  ELSE IF r.op = "rebuildWalletBalance"
  THEN [r EXCEPT !.loaded = w, !.pc = "bookings"]
  ELSE [r EXCEPT !.loaded = w, !.pc = "save"]

\* what follows the wallet calls of a booking handler
AfterWalletCalls(r) ==
  IF r.op = "createBooking" THEN [r EXCEPT !.pc = "done", !.result = "success"]
  ELSE [r EXCEPT !.pc = "write"]

\* getOrCreateWallet: this.findOne({attendant})
FindWallet(s) ==
  /\ procs[s].pc = "find"
  /\ LET r == procs[s]
         w == wallets[r.att]
     IN  procs' = [procs EXCEPT ![s] = IF w.exists THEN AfterWalletFound(r, w)
                                       ELSE [r EXCEPT !.pc = "create"]]
  /\ UNCHANGED <<bookings, wallets, systemWallet, today, steps, last, trail, hist>>

\* getOrCreateWallet: this.create({...}) after findOne found nothing.  attendant
\* is unique: with a wallet stored meanwhile the create throws, which a booking
\* handler catches (its wallet calls are skipped) and the others answer with
\* an error
CreateWallet(s) ==
  /\ procs[s].pc = "create"
  /\ LET r == procs[s]
     IN  IF wallets[r.att].exists
         THEN /\ procs' = [procs EXCEPT ![s] =
                             IF r.op \in BookingHandlers
                             THEN AfterWalletCalls([r EXCEPT !.calls = << >>])
                             ELSE [r EXCEPT !.pc = "done", !.result = "threw"]]
              /\ UNCHANGED wallets
         ELSE /\ wallets' = [wallets EXCEPT ![r.att] = FreshWallet]
              /\ procs' = [procs EXCEPT ![s] = AfterWalletFound(r, FreshWallet)]
  /\ UNCHANGED <<bookings, systemWallet, today, steps, last, trail, hist>>

\* slot s has written the wallet of attendant a: the documents of a that the
\* other requests loaded and have not saved yet are stale
Written(s, a, r) ==
  [t \in Slots |->
     IF t = s THEN r
     ELSE IF procs[t].att = a /\ procs[t].pc \in {"save", "mark", "bookings"}
     THEN [procs[t] EXCEPT !.stale = TRUE]
     ELSE procs[t]]

\* addCompletedBooking or removeCompletedBooking on the loaded document
SaveCall(s) ==
  /\ procs[s].pc = "save"
  /\ procs[s].op \in BookingHandlers
  /\ LET r == procs[s]
         c == Head(r.calls)
         \* createBooking: wallet.isPaid = false
         doc == IF r.op = "createBooking" THEN [r.loaded EXCEPT !.isPaid = FALSE]
                ELSE r.loaded
         edited == IF c.method = "add"
                   THEN addCompletedBooking(doc, c.amount, c.paymentType)
                   ELSE removeCompletedBooking(doc, c.amount, c.paymentType)
         rest == Tail(r.calls)
     IN  /\ wallets' = [wallets EXCEPT ![r.att] = WriteBack(@, r.loaded, edited)]
         /\ procs' = Written(s, r.att,
                       IF rest = << >> THEN AfterWalletCalls([r EXCEPT !.calls = rest])
                       ELSE [r EXCEPT !.calls = rest, !.pc = "find",
                                      !.att = rest[1].att])
         /\ hist' = IF c.method = "add"
                    THEN [hist EXCEPT !.applies[r.bid] = @ + 1]
                    ELSE [hist EXCEPT !.reversals[r.bid] = @ + 1]
  /\ UNCHANGED <<bookings, systemWallet, today, steps, last, trail>>

\* Booking.updateMany of a settlement
MarkBookingsPaid(s) ==
  /\ procs[s].pc = "mark"
  /\ bookings' = MarkPaid(bookings, procs[s].att, procs[s].dayOnly, today)
  /\ procs' = [procs EXCEPT ![s].pc = "save"]
  /\ UNCHANGED <<wallets, systemWallet, today, steps, last, trail, hist>>

\* wallet.resetWallet() of a settlement
SaveReset(s) ==
  /\ procs[s].pc = "save"
  /\ procs[s].op \in SettlementHandlers
  /\ LET r == procs[s]
     IN  /\ wallets' = [wallets EXCEPT ![r.att] =
                          WriteBack(@, r.loaded, resetWallet(r.loaded))]
         /\ procs' = Written(s, r.att, [r EXCEPT !.pc = "done", !.result = "success"])
  /\ UNCHANGED <<bookings, systemWallet, today, steps, last, trail, hist>>

\* rebuildWalletBalance: Booking.find
FindBookings(s) ==
  /\ procs[s].pc = "bookings"
  /\ procs' = [procs EXCEPT ![s].found = bookings, ![s].pc = "save"]
  /\ UNCHANGED <<bookings, wallets, systemWallet, today, steps, last, trail, hist>>

\* rebuildWalletBalance: the totals of the bookings found, and save
SaveRebuild(s) ==
  /\ procs[s].pc = "save"
  /\ procs[s].op = "rebuildWalletBalance"
  /\ LET r == procs[s]
     IN  /\ wallets' = [wallets EXCEPT ![r.att] =
                          WriteBack(@, r.loaded,
                                    rebuildWalletBalance(r.loaded, r.att, r.found))]
         /\ procs' = Written(s, r.att, [r EXCEPT !.pc = "done", !.result = "success"])
  /\ UNCHANGED <<bookings, systemWallet, today, steps, last, trail, hist>>

\* Booking.findByIdAndDelete, or Booking.findByIdAndUpdate({status}) with
\* runValidators
WriteBooking(s) ==
  /\ procs[s].pc = "write"
  /\ LET r == procs[s]
     IN  IF r.op = "deleteBooking"
         THEN /\ bookings' = [bookings EXCEPT ![r.bid] = NoBooking]
              /\ procs' = [procs EXCEPT ![s] = [r EXCEPT !.pc = "done",
                                                         !.result = "success"]]
         ELSE IF r.status \notin SchemaStatuses
         THEN /\ procs' = [procs EXCEPT ![s] = [r EXCEPT !.pc = "done",
                                                         !.result = "threw"]]
              /\ UNCHANGED bookings
         ELSE IF ~bookings[r.bid].exists
         THEN /\ procs' = [procs EXCEPT ![s] = [r EXCEPT !.pc = "done",
                                                         !.result = "notFound"]]
              /\ UNCHANGED bookings
         ELSE /\ bookings' = [bookings EXCEPT ![r.bid].status = r.status]
              /\ procs' = [procs EXCEPT ![s] = [r EXCEPT !.pc = "done",
                                                         !.result = "success"]]
  /\ UNCHANGED <<wallets, systemWallet, today, steps, last, trail, hist>>

\* the process dies while slot s is between two steps; result keeps the step
\* that was never taken
Crash(s) ==
  /\ InFlight(procs[s])
  /\ procs' = [procs EXCEPT ![s].pc = "crashed", ![s].result = procs[s].pc]
  /\ UNCHANGED <<bookings, wallets, systemWallet, today, steps, last, trail, hist>>

RaceStart ==
  \E s \in Slots :
     \/ \E x \in Amounts, m \in RacePaymentTypes : StartCreateBooking(s, x, m)
     \/ \E i \in BookingIds : StartOnBooking(s, "deleteBooking", i, "")
     \/ \E i \in BookingIds, st \in RaceStatuses :
           StartOnBooking(s, "updateBooking", i, st)
     \/ \E op \in SettlementHandlers \cup {"rebuildWalletBalance"} :
           StartOnWallet(s, op)

RaceStep ==
  \E s \in Slots :
     \/ FindWallet(s)
     \/ CreateWallet(s)
     \/ SaveCall(s)
     \/ MarkBookingsPaid(s)
     \/ SaveReset(s)
     \/ FindBookings(s)
     \/ SaveRebuild(s)
     \/ WriteBooking(s)

RaceCrash == \E s \in Slots : Crash(s)

RaceNext == RaceStart \/ RaceStep \/ RaceCrash

RaceSpec == Init /\ [][RaceNext]_vars

\* ------------------------------------------------------------------ properties
\* what one completed booking contributes to balance and to companyDebt
BalanceDelta(amount, paymentType) ==
  IF paymentType = "attendant_cash" THEN 0 - CompanyShare(amount)
  ELSE Commission(amount)

DebtDelta(amount, paymentType) ==
  IF paymentType = "attendant_cash" THEN CompanyShare(amount) ELSE 0

\* the replay of the commission policy over an attendant's completed, unpaid
\* bookings, and the tips minus the deductions of an adjustments list
ReplayEarnings(a) ==
  SumOver([i \in BookingIds |-> bookings[i].amount], UnpaidCompleted(bookings, a))

ReplayBalance(a) ==
  SumOver([i \in BookingIds |->
             BalanceDelta(bookings[i].amount, bookings[i].paymentType)],
          UnpaidCompleted(bookings, a))

ReplayDebt(a) ==
  SumOver([i \in BookingIds |->
             DebtDelta(bookings[i].amount, bookings[i].paymentType)],
          UnpaidCompleted(bookings, a))

RECURSIVE TipsMinusDeductions(_)
TipsMinusDeductions(adjs) ==
  IF Len(adjs) = 0 THEN 0
  ELSE (IF adjs[1].type = "tip" THEN adjs[1].amount ELSE 0 - adjs[1].amount)
       + TipsMinusDeductions(SubSeq(adjs, 2, Len(adjs)))

Reconciled(a) ==
  LET w == wallets[a]
  IN  /\ w.balance = ReplayBalance(a) + TipsMinusDeductions(w.adjustments)
      /\ w.totalEarnings = ReplayEarnings(a)
      /\ w.totalCommission = Commission(ReplayEarnings(a))
      /\ w.totalCompanyShare = CompanyShare(ReplayEarnings(a))
      /\ w.companyDebt = ReplayDebt(a)

\* C1: after any sequence of requests run one at a time, every wallet's balance,
\* totals and companyDebt equal the replay of the commission policy over the
\* attendant's completed, unpaid bookings (plus tips minus deductions).
C1_Reconciliation == \A a \in Users : wallets[a].exists => Reconciled(a)

\* the observed request made booking last.bid completed
BecameCompleted ==
  /\ last.result = "success"
  /\ \/ last.op = "createBooking"
     \/ last.op = "updateBooking" /\ last.orig.status # "completed"
  /\ bookings[last.bid].status = "completed"

\* C2: a booking that becomes completed with paymentType admin_cash or admin_till
\* raises its attendant's balance by exactly 0.4 x amount and leaves companyDebt
\* as it was.
C2_AdminCollectedCredit ==
  BecameCompleted /\ bookings[last.bid].paymentType \in {"admin_cash", "admin_till"}
  => LET b == bookings[last.bid]
     IN  /\ wallets[b.attendant].balance
              = last.pre[b.attendant].balance + Commission(b.amount)
         /\ wallets[b.attendant].companyDebt = last.pre[b.attendant].companyDebt

\* C3: a booking that becomes completed with paymentType attendant_cash lowers
\* its attendant's balance by exactly 0.6 x amount and raises companyDebt by
\* exactly 0.6 x amount.
C3_AttendantCollectedDebt ==
  BecameCompleted /\ bookings[last.bid].paymentType = "attendant_cash"
  => LET b == bookings[last.bid]
     IN  /\ wallets[b.attendant].balance
              = last.pre[b.attendant].balance - CompanyShare(b.amount)
         /\ wallets[b.attendant].companyDebt
              = last.pre[b.attendant].companyDebt + CompanyShare(b.amount)

\* the five ledger fields of two wallet documents agree
SameLedger(v, w) ==
  /\ v.balance = w.balance
  /\ v.totalEarnings = w.totalEarnings
  /\ v.totalCommission = w.totalCommission
  /\ v.totalCompanyShare = w.totalCompanyShare
  /\ v.companyDebt = w.companyDebt

\* the last two calls were addCompletedBooking(x, m), removeCompletedBooking(x, m)
AddThenRemove ==
  /\ Len(trail) = 2
  /\ trail[1].method = "addCompletedBooking"
  /\ trail[2].method = "removeCompletedBooking"
  /\ trail[2].amount = trail[1].amount
  /\ trail[2].arg = trail[1].arg

\* C4: addCompletedBooking(amount, m) immediately followed by
\* removeCompletedBooking(amount, m) restores balance, totalEarnings,
\* totalCommission, totalCompanyShare and companyDebt to their values before the add.
C4_ReversalLaw ==
  AddThenRemove => SameLedger(wallets[LedgerAttendant], trail[1].before)

C4_Witness ==
  /\ AddThenRemove
  /\ trail[1].arg = "attendant_cash"
  /\ trail[1].before.balance < 0
  /\ trail[1].before.totalEarnings = 0

Zeroed(w) ==
  /\ w.exists
  /\ w.balance = 0
  /\ w.totalEarnings = 0
  /\ w.totalCommission = 0
  /\ w.totalCompanyShare = 0
  /\ w.companyDebt = 0
  /\ w.isPaid

\* the bookings of attendant a still in the settlement scope
InScope(a, dayOnly) ==
  {i \in UnpaidCompleted(bookings, a) : dayOnly => bookings[i].createdDay = today}

\* C5: after a successful settlement of an attendant (markAttendantPaid, or an
\* entry reported settled by settleAttendantBalances) the wallet has balance,
\* companyDebt and totals 0 and isPaid true, and every booking in the settlement
\* scope is attendantPaid, whatever the balance was before.
C5_SettlementZeroes ==
  /\ last.op = "markAttendantPaid" /\ last.result = "success"
       => Zeroed(wallets[last.att]) /\ InScope(last.att, FALSE) = {}
  /\ last.op = "settleAttendantBalances" /\ last.result = "success"
       => \A k \in 1..Len(last.settled) :
            /\ Zeroed(wallets[last.settled[k]])
            /\ InScope(last.settled[k], TRUE) = {}

C5_Witness ==
  /\ last.op = "settleAttendantBalances"
  /\ last.result = "success"
  /\ Len(last.settled) = 1
  /\ last.pre[last.settled[1]].balance < 0
  /\ \E i \in BookingIds : /\ bookings[i].exists
                           /\ bookings[i].attendant = last.settled[1]
                           /\ bookings[i].attendantPaid
                           /\ bookings[i].createdDay = today

\* C6: with bookings and adjustments unchanged, rebuildWalletBalance applied
\* again to the wallet it has just rebuilt leaves the wallet as it is.
C6_RebuildIdempotent ==
  last.op = "rebuildWalletBalance" /\ last.result = "success"
  => rebuildWalletBalance(wallets[last.att], last.att, bookings) = wallets[last.att]

C6_Witness ==
  /\ last.op = "rebuildWalletBalance"
  /\ last.result = "success"
  /\ last.pre[last.att].exists
  /\ wallets[last.att].balance # last.pre[last.att].balance
  /\ wallets[last.att].balance # 0

\* C7: the wallet's companyDebt and the system wallet's totalRevenue,
\* currentBalance, totalAdminCollections, totalAttendantPayments and
\* totalAttendantCollections are never negative, whatever the order of applies
\* and reversals, unmatched reversals included.
C7_NonNegativity ==
  /\ \A a \in Users : wallets[a].companyDebt >= 0
  /\ systemWallet.totalRevenue >= 0
  /\ systemWallet.currentBalance >= 0
  /\ systemWallet.totalAdminCollections >= 0
  /\ systemWallet.totalAttendantPayments >= 0
  /\ systemWallet.totalAttendantCollections >= 0

C7_Witness ==
  /\ Len(trail) = 2
  /\ trail[1].method = "removeCompletedBooking"
  /\ trail[1].arg = "attendant_cash"
  /\ trail[1].before.companyDebt < CompanyShare(trail[1].amount)
  /\ trail[2].method = "reverseSystemWalletTransaction"
  /\ trail[2].systemBefore.totalRevenue < trail[2].amount

EditedInPlace ==
  /\ last.op = "updateBooking"
  /\ last.result = "success"
  /\ last.orig.status = "completed"
  /\ bookings[last.bid].status = "completed"
  /\ bookings[last.bid].attendant = last.orig.attendant
  /\ \/ bookings[last.bid].amount # last.orig.amount
     \/ bookings[last.bid].paymentType # last.orig.paymentType

\* C9: editing the amount and/or paymentType of a completed booking (same
\* attendant, status unchanged) leaves balance and companyDebt as if the old
\* deltas were reversed and the new ones applied.
C9_EditReappliesDeltas ==
  EditedInPlace
  => LET old == last.orig
         new == bookings[last.bid]
         w   == wallets[old.attendant]
         pre == last.pre[old.attendant]
     IN  /\ w.balance = pre.balance - BalanceDelta(old.amount, old.paymentType)
                                    + BalanceDelta(new.amount, new.paymentType)
         /\ w.companyDebt = pre.companyDebt - DebtDelta(old.amount, old.paymentType)
                                            + DebtDelta(new.amount, new.paymentType)

\* C10: adjustAttendantWallet with a tip (a deduction) raises (lowers) the
\* balance by exactly amount, leaves totals and companyDebt as they were and
\* records the adjustment, so that a following rebuildWalletBalance gives the
\* sum of the booking deltas plus the tips minus the deductions.
C10_AdjustmentRecorded ==
  last.op = "adjustAttendantWallet" /\ last.result = "success"
  => LET w   == wallets[last.att]
         pre == last.pre[last.att]
         amt == last.req.amount.v
         signed == IF last.req.type.v = "tip" THEN amt ELSE 0 - amt
         rebuilt == rebuildWalletBalance(w, last.att, bookings)
     IN  /\ w.balance = pre.balance + signed
         /\ w.totalEarnings = pre.totalEarnings
         /\ w.totalCommission = pre.totalCommission
         /\ w.totalCompanyShare = pre.totalCompanyShare
         /\ w.companyDebt = pre.companyDebt
         /\ w.adjustments = Append(pre.adjustments,
                                   [type |-> last.req.type.v, amount |-> amt])
         /\ rebuilt.balance = ReplayBalance(last.att) + TipsMinusDeductions(w.adjustments)
         /\ Reconciled(last.att) => rebuilt.balance = w.balance

C10_Witness ==
  /\ last.op = "adjustAttendantWallet"
  /\ last.result = "success"
  /\ last.req.type.v = "deduction"
  /\ last.pre[last.att].balance # 0
  /\ UnpaidCompleted(bookings, last.att) # {}
  /\ Reconciled(last.att)

Range(q) == {q[k] : k \in 1..Len(q)}

\* the bookings of attendant a, as a function of the booking id
BookingsOf(bs, a) ==
  [i \in BookingIds |-> IF bs[i].exists /\ bs[i].attendant = a THEN bs[i] ELSE NoBooking]

\* attendant a can be settled: a known attendant whose stored wallet is unpaid
Settleable(ws, a) ==
  a \in Users /\ Role(a) = "attendant" /\ ws[a].exists /\ ~ws[a].isPaid

\* C11: in settleAttendantBalances an attendant that is unknown, not an
\* attendant or already paid is reported in the errors list, its stored wallet
\* and its bookings stay as they were, and every other attendant of the batch
\* is still settled.
C11_BatchIsolation ==
  [][ last'.op = "settleAttendantBalances" /\ last'.result = "success"
      => /\ Len(last'.settled) + Len(last'.errors) = Len(last'.batch)
         /\ \A a \in Range(last'.batch) :
              IF Settleable(wallets, a)
              THEN a \in Range(last'.settled) /\ Zeroed(wallets'[a])
              ELSE /\ a \in Range(last'.errors)
                   /\ a \notin Range(last'.settled)
                   /\ a \in Users
                        => /\ wallets[a].exists => wallets'[a] = wallets[a]
                           /\ BookingsOf(bookings', a) = BookingsOf(bookings, a) ]_vars

C11_Witness ==
  /\ last.op = "settleAttendantBalances"
  /\ Len(last.batch) = 2
  /\ last.errors = << last.batch[1] >>
  /\ last.settled = << last.batch[2] >>
  /\ last.batch[1] \in Attendants
  /\ last.batch[1] # last.batch[2]
  /\ last.pre[last.settled[1]].balance # 0

\* this step is a settlement whose scope includes booking i
SettlesBooking(i) ==
  /\ bookings[i].status = "completed"
  /\ \/ markAttendantPaid(bookings[i].attendant)
     \/ /\ bookings[i].createdDay = today
        /\ \E ids \in Batches : /\ bookings[i].attendant \in Range(ids)
                                /\ settleAttendantBalances(ids)

\* C12: a booking is created with attendantPaid false, and the flag becomes
\* true only in a settlement step (markAttendantPaid or settleAttendantBalances)
\* for the booking's attendant whose scope includes the booking.
C12_PaidOnlyBySettlement ==
  [][ \A i \in BookingIds :
        /\ ~bookings[i].exists /\ bookings'[i].exists => ~bookings'[i].attendantPaid
        /\ bookings[i].exists /\ ~bookings[i].attendantPaid /\ bookings'[i].attendantPaid
             => SettlesBooking(i) ]_vars

C12_Witness ==
  /\ last.op = "markAttendantPaid"
  /\ last.result = "success"
  /\ \E i, j \in BookingIds :
       /\ bookings[i].exists /\ bookings[i].attendant = last.att
       /\ bookings[i].attendantPaid
       /\ bookings[j].exists /\ bookings[j].attendant # last.att
       /\ bookings[j].status = "completed" /\ ~bookings[j].attendantPaid

\* C13: a request that ends in a validation error (controller validation or
\* the Booking schema validators) leaves every booking and every wallet, its
\* adjustments list included, exactly as before the request.
C13_ValidationBeforeMutation ==
  [][ last'.result \in {"invalid", "threw"}
      => bookings' = bookings /\ wallets' = wallets ]_vars

\* list q extends list p
Extends(p, q) == Len(p) <= Len(q) /\ SubSeq(q, 1, Len(p)) = p

\* this step is a settlement of attendant a
Settles(a) ==
  \/ markAttendantPaid(a)
  \/ \E ids \in Batches : a \in Range(ids) /\ settleAttendantBalances(ids)

LastCall == trail[Len(trail)]

\* C15: creditSystemWallet(amount, source) raises totalRevenue and
\* currentBalance by exactly amount, raises the counter matching the source
\* (admin_collection: totalAdminCollections, attendant_submission:
\* totalAttendantPayments) by amount, and leaves every other field unchanged.
C15_CreditSystemWallet ==
  Len(trail) > 0 /\ LastCall.method = "creditSystemWallet"
  => LET was == LastCall.systemBefore
         x   == LastCall.amount
         src == LastCall.arg
     IN  /\ systemWallet.totalRevenue = was.totalRevenue + x
         /\ systemWallet.currentBalance = was.currentBalance + x
         /\ systemWallet.totalAdminCollections
              = was.totalAdminCollections + (IF src = "admin_collection" THEN x ELSE 0)
         /\ systemWallet.totalAttendantPayments
              = was.totalAttendantPayments + (IF src = "attendant_submission" THEN x ELSE 0)
         /\ systemWallet.totalAttendantCollections = was.totalAttendantCollections
         /\ systemWallet.totalCompanyShare = was.totalCompanyShare

C15_Witness ==
  /\ Len(trail) = 2
  /\ LastCall.method = "creditSystemWallet"
  /\ LastCall.arg = "attendant_submission"
  /\ LastCall.systemBefore.totalAdminCollections > 0
  /\ systemWallet.totalAttendantPayments = LastCall.amount

\* the last two calls were creditSystemWallet(x, s), reverseSystemWalletTransaction(x, s)
CreditThenReverse ==
  /\ Len(trail) = 2
  /\ trail[1].method = "creditSystemWallet"
  /\ trail[2].method = "reverseSystemWalletTransaction"
  /\ trail[2].amount = trail[1].amount
  /\ trail[2].arg = trail[1].arg

\* C16: creditSystemWallet(amount, source) immediately followed by
\* reverseSystemWalletTransaction(amount, source) restores every monetary field
\* of the system wallet to its value before the credit.
C16_ReverseUndoesCredit ==
  CreditThenReverse
  => LET was == trail[1].systemBefore
     IN  /\ systemWallet.totalRevenue = was.totalRevenue
         /\ systemWallet.currentBalance = was.currentBalance
         /\ systemWallet.totalAdminCollections = was.totalAdminCollections
         /\ systemWallet.totalAttendantPayments = was.totalAttendantPayments
         /\ systemWallet.totalAttendantCollections = was.totalAttendantCollections
         /\ systemWallet.totalCompanyShare = was.totalCompanyShare

C16_Witness ==
  /\ CreditThenReverse
  /\ trail[1].arg = "admin_collection"
  /\ trail[1].systemBefore.totalRevenue > 0
  /\ trail[1].systemBefore.totalAdminCollections = 0

\* C17: every booking request (create, update, delete) that changes an
\* attendant wallet's balance, totals or companyDebt also changes the system
\* wallet.
C17_SystemWalletInParallel ==
  [][ /\ CreateBooking \/ UpdateBooking \/ DeleteBooking
      /\ \E a \in Users : ~SameLedger(wallets[a], wallets'[a])
      => systemWallet' # systemWallet ]_vars

\* the observed updateBooking moved a completed booking, still completed, to
\* another attendant
MovedToAnotherAttendant ==
  /\ last.op = "updateBooking"
  /\ last.result = "success"
  /\ last.orig.status = "completed"
  /\ bookings[last.bid].status = "completed"
  /\ bookings[last.bid].attendant # last.orig.attendant

\* C18: when updateBooking changes the attendant of a completed booking, the
\* original attendant's wallet receives exactly one reversal of the old
\* (amount, paymentType), the new attendant's wallet exactly one apply of the
\* new (amount, paymentType), and nothing else is applied or reversed.
C18_MoveIsOneReversalOneApply ==
  MovedToAnotherAttendant
  => LET old == last.orig
         new == bookings[last.bid]
     IN  /\ Len(last.calls) = 2
         /\ Range(last.calls)
              = {Call("remove", old.attendant, old.amount, old.paymentType),
                 Call("add", new.attendant, new.amount, new.paymentType)}

\* C19: when updateBooking moves a booking out of status completed, the only
\* ledger effect is one reversal of the booking's original (amount,
\* paymentType) on the original attendant's wallet; no wallet receives an apply.
C19_LeavingCompletedReversesOnly ==
  /\ last.op = "updateBooking"
  /\ last.result = "success"
  /\ last.orig.status = "completed"
  /\ bookings[last.bid].status # "completed"
  => last.calls = << Call("remove", last.orig.attendant, last.orig.amount,
                          last.orig.paymentType) >>

\* the observed updateBooking moved a non-completed booking into completed
EnteredCompleted ==
  /\ last.op = "updateBooking"
  /\ last.result = "success"
  /\ last.orig.status # "completed"
  /\ bookings[last.bid].status = "completed"

EditedWhileNotCompleted ==
  /\ last.op = "updateBooking"
  /\ last.orig.exists
  /\ last.orig.status # "completed"
  /\ ~(last.req.status.given /\ last.req.status.v = "completed")

\* C21: an updateBooking on a booking that is not completed, and that does not
\* change its status to completed, leaves every wallet's balance, totals,
\* companyDebt and isPaid unchanged, whatever else the request changes.
C21_NotCompletedEditHasNoLedgerEffect ==
  EditedWhileNotCompleted
  => \A a \in Users :
        /\ wallets[a].exists = last.pre[a].exists
        /\ SameLedger(wallets[a], last.pre[a])
        /\ wallets[a].isPaid = last.pre[a].isPaid

C21_Witness ==
  /\ EditedWhileNotCompleted
  /\ last.result = "success"
  /\ bookings[last.bid].amount # last.orig.amount
  /\ bookings[last.bid].attendant # last.orig.attendant
  /\ bookings[last.bid].paymentType # last.orig.paymentType
  /\ last.pre[last.orig.attendant].exists

\* the wallet a stale createBooking would store had no other request saved
\* since it loaded the document
OwnBookingOnly(r) ==
  addCompletedBooking([r.loaded EXCEPT !.isPaid = FALSE],
                      Head(r.calls).amount, Head(r.calls).paymentType)

\* C22: wallet mutations of one attendant are not mutually excluded: when a
\* createBooking saves a wallet document that another request has saved since
\* it was loaded, the stored balance and totals are those of the loaded
\* document plus this booking alone, and the other request's update is lost.
C22_StaleSaveKeepsOneBooking ==
  [][ \A s \in Slots :
        /\ procs[s].op = "createBooking"
        /\ procs[s].pc = "save"
        /\ procs[s].stale
        /\ procs'[s].pc = "done"
        => LET only == OwnBookingOnly(procs[s])
               now  == wallets'[procs[s].att]
           IN  /\ now.balance = only.balance
               /\ now.totalEarnings = only.totalEarnings
               /\ now.totalCommission = only.totalCommission
               /\ now.totalCompanyShare = only.totalCompanyShare ]_vars

\* two createBooking requests both loaded the empty wallet before either saved:
\* both bookings are stored, and the wallet holds the earnings of one
C22_Witness ==
  \E s \in Slots : \E t \in Slots \ {s} :
     /\ procs[s].op = "createBooking" /\ procs[s].result = "success"
     /\ procs[t].op = "createBooking" /\ procs[t].result = "success"
     /\ procs[s].stale
     /\ procs[s].loaded.exists /\ procs[s].loaded.totalEarnings = 0
     /\ procs[t].loaded.exists /\ procs[t].loaded.totalEarnings = 0
     /\ UnpaidCompleted(bookings, RaceAttendant) = {procs[s].bid, procs[t].bid}
     /\ wallets[RaceAttendant].totalEarnings = bookings[procs[s].bid].amount
     /\ wallets[RaceAttendant].balance
          = BalanceDelta(bookings[procs[s].bid].amount,
                         bookings[procs[s].bid].paymentType)

Quiescent == \A s \in Slots : ~InFlight(procs[s])

\* slot s holds a settlement that was served together with a booking handler,
\* the request of the other slot, and both have been answered
SettledDuringBookingRequest(s) ==
  /\ procs[s].op \in SettlementHandlers
  /\ procs[s].pc = "done"
  /\ procs[s].result = "success"
  /\ \E t \in Slots \ {s} :
        /\ procs[t].op \in BookingHandlers
        /\ procs[t].pc = "done"
        /\ procs[s].no \in procs[t].met

\* slot s holds a settlement that died between Booking.updateMany and
\* resetWallet, and no request has been served with it or started after it
SettlementCrashedHalfway(s) ==
  /\ procs[s].op \in SettlementHandlers
  /\ procs[s].pc = "crashed"
  /\ procs[s].result = "save"
  /\ procs[s].met = {}
  /\ procs[s].no = hist.started

\* C23: settlement is atomic from the caller's perspective: once a settlement
\* that was served together with a createBooking, updateBooking or deleteBooking
\* of the same attendant has been answered (or has died between its two
\* writes), and no request is being served, the wallet holds exactly the
\* contributions of the attendant's completed, unpaid bookings: no unpaid
\* booking's contribution was wiped, no paid booking's contribution remains.
C23_SettlementAtomic ==
  \A s \in Slots :
     /\ Quiescent
     /\ SettledDuringBookingRequest(s) \/ SettlementCrashedHalfway(s)
     => Reconciled(procs[s].att)

\* C24: single reversal rule: over any sequence or interleaving of
\* updateBooking and deleteBooking requests, removeCompletedBooking is never
\* applied a second time for one application of a booking.
C24_SingleReversal ==
  \A i \in BookingIds :
     hist.applies[i] > 0 => hist.reversals[i] <= hist.applies[i]

\* slot s takes the last step of a rebuildWalletBalance request that no other
\* request was served with
RebuiltAlone(s) ==
  /\ procs[s].op = "rebuildWalletBalance"
  /\ procs[s].pc = "save"
  /\ procs[s].met = {}
  /\ procs'[s].pc = "done"

\* C25: rebuild is the repair path: whatever wallet state crashes, failures and
\* lost updates have left behind, a rebuildWalletBalance served alone leaves
\* the stored balance, totals and companyDebt equal to the replay over the
\* attendant's completed, unpaid bookings plus the recorded adjustments.
C25_RebuildRepairs ==
  [][ \A s \in Slots : RebuiltAlone(s) => Reconciled(procs[s].att)' ]_vars

\* a rebuild served alone has just repaired a wallet that did not reconcile
C25_Witness ==
  \E s \in Slots :
     /\ procs[s].op = "rebuildWalletBalance"
     /\ procs[s].pc = "done"
     /\ procs[s].met = {}
     /\ procs[s].no = hist.started
     /\ procs[s].loaded.exists
     /\ ~SameLedger(procs[s].loaded, wallets[procs[s].att])
     /\ UnpaidCompleted(bookings, procs[s].att) # {}
     /\ Reconciled(procs[s].att)

\* C26: a deleteBooking or updateBooking on a completed booking whose
\* attendantPaid flag is already true leaves every wallet's balance, totals
\* and companyDebt unchanged.
C26_PaidBookingHasNoLedgerEffect ==
  /\ last.op \in {"deleteBooking", "updateBooking"}
  /\ last.orig.exists
  /\ last.orig.status = "completed"
  /\ last.orig.attendantPaid
  => \A a \in Users : SameLedger(wallets[a], last.pre[a])

\* the attendants the observed settlement has settled
SettledAttendants ==
  IF last.op = "markAttendantPaid" /\ last.result = "success" THEN {last.att}
  ELSE IF last.op = "settleAttendantBalances" /\ last.result = "success"
  THEN Range(last.settled)
  ELSE {}

\* C27: immediately after a successful settlement of an attendant through
\* either path, rebuildWalletBalance leaves the wallet at balance 0, totals 0
\* and companyDebt 0: no completed booking of the attendant is left with
\* attendantPaid false, whatever the bookings' creation dates.
C27_RebuildAfterSettlementIsZero ==
  \A a \in SettledAttendants :
     /\ UnpaidCompleted(bookings, a) = {}
     /\ LET w == rebuildWalletBalance(wallets[a], a, bookings)
        IN  /\ w.balance = 0
            /\ w.totalEarnings = 0
            /\ w.totalCommission = 0
            /\ w.totalCompanyShare = 0
            /\ w.companyDebt = 0

\* C28: after any sequence of requests run one at a time, every stored wallet
\* with isPaid true has balance 0, and so every wallet stored with a non-zero
\* balance has isPaid false; a wallet that getOrCreateWallet creates has isPaid
\* true with balance, totals and companyDebt 0.
C28_PaidWalletsHaveZeroBalance ==
  /\ \A a \in Users : wallets[a].exists /\ wallets[a].balance # 0 => ~wallets[a].isPaid
  /\ \A a \in Users : ~wallets[a].exists => Zeroed(getOrCreateWallet(wallets, a))
  /\ \A a \in Users :
        /\ last.op \in {"markAttendantPaid", "settleAttendantBalances"}
        /\ ~last.pre[a].exists
        /\ wallets[a].exists
        => Zeroed(wallets[a])

\* a settlement request has created the wallet of one attendant while the
\* wallet of the other holds a balance
C28_Witness ==
  /\ last.op \in {"markAttendantPaid", "settleAttendantBalances"}
  /\ \E a \in Attendants : \E b \in Attendants \ {a} :
        /\ ~last.pre[a].exists
        /\ Zeroed(wallets[a])
        /\ wallets[b].exists
        /\ wallets[b].balance # 0
        /\ ~wallets[b].isPaid

Occurrences(q, x) == Cardinality({k \in 1..Len(q) : q[k] = x})

\* C30: for a settleAttendantBalances batch of well-formed ids, every id
\* occurrence ends in exactly one of the two result lists, so the lengths of
\* settledWallets and errors add up to the length of attendantIds, and an id
\* listed more than once is settled at most once, its other occurrences being
\* reported as errors.
C30_EveryIdInOneList ==
  last.op = "settleAttendantBalances" /\ last.result = "success"
  => /\ Len(last.settled) + Len(last.errors) = Len(last.batch)
     /\ \A x \in Range(last.batch) :
           /\ Occurrences(last.settled, x) <= 1
           /\ Occurrences(last.settled, x) + Occurrences(last.errors, x)
                = Occurrences(last.batch, x)

\* one attendant listed twice: settled once, reported once
C30_Witness ==
  /\ last.op = "settleAttendantBalances"
  /\ last.result = "success"
  /\ Len(last.batch) = 2
  /\ last.batch[1] = last.batch[2]
  /\ last.settled = << last.batch[1] >>
  /\ last.errors = << last.batch[1] >>

====
